---- MODULE Spec2Model ----
(***************************************************************************)
(* Model of noisemachine.py: the filename binder (NoiseMachine             *)
(* .__init_buttons and FilenameGenerator) and the press classifier         *)
(* (NoiseMachine.monitor, .__play_sound, .__button_press).                 *)
(*                                                                         *)
(* Python values are represented as follows.                               *)
(*   str            a sequence of one-character strings                    *)
(*   None           0 for a Popen handle, <<>> for a str or an argument    *)
(*   dict           a function; a missing key is a key outside DOMAIN      *)
(*   list of tuples a sequence of <<position, filename>> pairs             *)
(***************************************************************************)
EXTENDS Integers, Sequences, FiniteSets, TLC

(***************************************************************************)
(* Bounds of the model.                                                    *)
(***************************************************************************)
\* longest directory listing the binder is run on
MaxFiles == 2
\* direct calls of next() made on one selector
MaxCalls == 3
\* button presses recorded within one decision cycle
MaxPresses == 2
\* Popen handles alive at the same time
MaxProcs == 2

(***************************************************************************)
(* Strings.  Alphabet lists the characters in code-point order, so that    *)
(* Ord orders characters the way Python's str comparison does.             *)
(***************************************************************************)
Alphabet ==
    << "-", ".", "0", "1", "2", "3", "4", "5", "6", "7", "8", "9",
       "a", "b", "c", "d", "e", "f", "g", "h", "i", "j", "k", "l", "m",
       "n", "o", "p", "q", "r", "s", "t", "u", "v", "w", "x", "y", "z" >>

Ord(c) ==
    CHOOSE i \in 1..Len(Alphabet) : Alphabet[i] = c

Digits ==
    << "0", "1", "2", "3", "4", "5", "6", "7", "8", "9" >>

DigitValue(c) ==
    (CHOOSE i \in 1..10 : Digits[i] = c) - 1

IsDigit(c) ==
    \E i \in 1..10 : Digits[i] = c

\* str < str : lexicographic on code points, a proper prefix is smaller
RECURSIVE StrLess(_, _)
StrLess(a, b) ==
    IF b = <<>> THEN FALSE
    ELSE IF a = <<>> THEN TRUE
    ELSE IF Head(a) = Head(b) THEN StrLess(Tail(a), Tail(b))
    ELSE Ord(Head(a)) < Ord(Head(b))

\* x.endswith(".wav")
EndsWithWav(x) ==
    /\ Len(x) >= 4
    /\ SubSeq(x, Len(x) - 3, Len(x)) = << ".", "w", "a", "v" >>

\* file[:-4]
DropExt(file) ==
    SubSeq(file, 1, Len(file) - 4)

\* s.split("-") : the fields between the delimiters, empty fields included;
\* Cut(s, k) is the position of the k-th delimiter, with one in front of the
\* string and one behind it
Cut(s, k) ==
    LET dashes == { i \in 1..Len(s) : s[i] = "-" }
    IN  IF k = 0 THEN 0
        ELSE IF k > Cardinality(dashes) THEN Len(s) + 1
        ELSE CHOOSE i \in dashes : Cardinality({ j \in dashes : j < i }) = k - 1

Split(s) ==
    LET n == Cardinality({ i \in 1..Len(s) : s[i] = "-" })
    IN  [ k \in 1..(n + 1) |-> SubSeq(s, Cut(s, k - 1) + 1, Cut(s, k) - 1) ]

\* int(s) succeeds: a non-empty run of decimal digits
IsInt(s) ==
    /\ Len(s) >= 1
    /\ \A i \in 1..Len(s) : IsDigit(s[i])

\* int(s) : the value of the decimal digits
RECURSIVE IntOf(_)
IntOf(s) ==
    IF s = <<>> THEN 0
    ELSE 10 * IntOf(SubSeq(s, 1, Len(s) - 1)) + DigitValue(s[Len(s)])

(***************************************************************************)
(* Words the file names of the model are made of.                          *)
(***************************************************************************)
dash == << "-" >>
wav == << ".", "w", "a", "v" >>
single == << "s", "i", "n", "g", "l", "e" >>
double == << "d", "o", "u", "b", "l", "e" >>
sequence == << "s", "e", "q", "u", "e", "n", "c", "e" >>
random == << "r", "a", "n", "d", "o", "m" >>

Name2(b, pt) ==
    b \o dash \o pt \o wav

Name4(b, pt, pol, ord) ==
    b \o dash \o pt \o dash \o pol \o dash \o ord \o wav

(***************************************************************************)
(* PressType and GeneratorType (the enums of the source).                  *)
(***************************************************************************)
PressType == { "SINGLE", "DOUBLE" }

GeneratorType == { "SINGLE", "SEQUENCE", "RANDOM" }

(***************************************************************************)
(* FilenameGenerator.                                                      *)
(***************************************************************************)
\* FilenameGenerator.__init__
FilenameGenerator(filenames, generator_type) ==
    [ filenames |-> filenames,
      generator_type |-> generator_type,
      counter |-> 0 ]

\* a comparison that orders the tuples by filename only
TupleLess_byname(x, y) ==
    StrLess(x[2], y[2])

\* tuple comparison (position, filename) < (position, filename)
TupleLess(x, y) ==
    \/ x[1] < y[1]
    \/ x[1] = y[1] /\ StrLess(x[2], y[2])

\* list.sort() : stable insertion of each element behind the elements that
\* are not greater than it
RECURSIVE InsertSorted(_, _)
InsertSorted(sorted, x) ==
    IF sorted = <<>> THEN << x >>
    ELSE IF TupleLess(x, Head(sorted)) THEN << x >> \o sorted
    ELSE << Head(sorted) >> \o InsertSorted(Tail(sorted), x)

RECURSIVE SortList(_)
SortList(l) ==
    IF l = <<>> THEN <<>>
    ELSE InsertSorted(SortList(SubSeq(l, 1, Len(l) - 1)), l[Len(l)])

\* FilenameGenerator.add_filename : raises on a SINGLE generator
add_filename_raises(gen) ==
    gen.generator_type = "SINGLE"

\* add_filename without the sort: the list stays in encounter order
add_filename_nosort(gen, filename, position) ==
    [ gen EXCEPT !.filenames = Append(@, << position, filename >>) ]

add_filename(gen, filename, position) ==
    [ gen EXCEPT !.filenames = SortList(Append(@, << position, filename >>)) ]

\* next without the reset of the counter at the end of the list
next_nowrap(gen) ==
    IF gen.generator_type = "SEQUENCE"
    THEN { [ file |-> gen.filenames[gen.counter + 1][2],
             gen |-> [ gen EXCEPT !.counter = gen.counter + 1 ] ] }
    ELSE { [ file |-> gen.filenames[i][2], gen |-> gen ] :
             i \in 1..Len(gen.filenames) }

\* FilenameGenerator.next : the set of possible outcomes, each the returned
\* filename and the generator after the call
next(gen) ==
    IF gen.generator_type = "SINGLE"
    THEN { [ file |-> gen.filenames[1][2], gen |-> gen ] }
    ELSE IF gen.generator_type = "SEQUENCE"
    THEN { [ file |-> gen.filenames[gen.counter + 1][2],
             gen |-> [ gen EXCEPT !.counter =
                         IF gen.counter + 1 >= Len(gen.filenames)
                         THEN 0 ELSE gen.counter + 1 ] ] }
    ELSE IF Len(gen.filenames) >= 2
    THEN { [ file |-> gen.filenames[i][2], gen |-> gen ] :
             i \in 1..Len(gen.filenames) }
    ELSE { [ file |-> gen.filenames[1][2], gen |-> gen ] }

(***************************************************************************)
(* ButtonData and NoiseMachine.__init_buttons.                             *)
(***************************************************************************)
\* ButtonData() : no GPIO object, no id, no generators
ButtonData ==
    [ gpio_object |-> "None", button_id |-> -1, filename_generators |-> <<>> ]

\* the state the scan loop works on: self.buttons, the pins held by open
\* gpiozero.Button objects, and the exception that ended the scan, if any
BindStart ==
    [ buttons |-> <<>>, open_pins |-> {}, error |-> "none" ]

\* bind_slot with the fixed file of one press type stored under the other
bind_slot_swapped(gens, pt, split, file) ==
    LET order_number == IntOf(split[4])
        policy(word, type) ==
            IF pt \notin DOMAIN gens
            THEN [ error |-> "none",
                   gens |-> (pt :> FilenameGenerator(
                                << << order_number, file >> >>, type)) @@ gens ]
            ELSE IF add_filename_raises(gens[pt])
            THEN [ error |-> "RuntimeError", gens |-> gens ]
            ELSE [ error |-> "none",
                   gens |-> [ gens EXCEPT ![pt] =
                                add_filename(@, file, order_number) ] ]
    IN  IF Len(split) = 4 /\ split[3] = random
        THEN policy(random, "RANDOM")
        ELSE IF Len(split) = 4 /\ split[3] = sequence
        THEN policy(sequence, "SEQUENCE")
        ELSE LET other == IF pt = "SINGLE" THEN "DOUBLE" ELSE "SINGLE"
             IN  [ error |-> "none",
                   gens |-> (other :> FilenameGenerator(<< << 1, file >> >>, "SINGLE"))
                            @@ [ k \in DOMAIN gens \ { other } |-> gens[k] ] ]

\* bind_slot with the sequence and random files stored without extension
bind_slot_noext(gens, pt, split, file) ==
    LET order_number == IntOf(split[4])
        policy(word, type) ==
            IF pt \notin DOMAIN gens
            THEN [ error |-> "none",
                   gens |-> (pt :> FilenameGenerator(
                                << << order_number, DropExt(file) >> >>, type)) @@ gens ]
            ELSE IF add_filename_raises(gens[pt])
            THEN [ error |-> "RuntimeError", gens |-> gens ]
            ELSE [ error |-> "none",
                   gens |-> [ gens EXCEPT ![pt] =
                                add_filename(@, DropExt(file), order_number) ] ]
    IN  IF Len(split) = 4 /\ split[3] = random
        THEN policy(random, "RANDOM")
        ELSE IF Len(split) = 4 /\ split[3] = sequence
        THEN policy(sequence, "SEQUENCE")
        ELSE [ error |-> "none",
               gens |-> (pt :> FilenameGenerator(<< << 1, file >> >>, "SINGLE"))
                        @@ [ k \in DOMAIN gens \ { pt } |-> gens[k] ] ]

\* one "single"/"double" branch of the scan loop, for press type pt:
\* the generators of new_button after the branch, or the exception raised
bind_slot(gens, pt, split, file) ==
    LET order_number == IntOf(split[4])
        policy(word, type) ==
            IF pt \notin DOMAIN gens
            THEN [ error |-> "none",
                   gens |-> (pt :> FilenameGenerator(
                                << << order_number, file >> >>, type)) @@ gens ]
            ELSE IF add_filename_raises(gens[pt])
            THEN [ error |-> "RuntimeError", gens |-> gens ]
            ELSE [ error |-> "none",
                   gens |-> [ gens EXCEPT ![pt] =
                                add_filename(@, file, order_number) ] ]
    IN  IF Len(split) = 4 /\ split[3] = random
        THEN policy(random, "RANDOM")
        ELSE IF Len(split) = 4 /\ split[3] = sequence
        THEN policy(sequence, "SEQUENCE")
        ELSE [ error |-> "none",
               gens |-> (pt :> FilenameGenerator(<< << 1, file >> >>, "SINGLE"))
                        @@ [ k \in DOMAIN gens \ { pt } |-> gens[k] ] ]

\* the body of "for file in files"
\* bind_invalid that raises instead of going on to the next file
bind_invalid_raise(st, opened, pins) ==
    [ st EXCEPT !.open_pins = pins, !.error = "ValueError" ]

\* bind_invalid without the continue: the button is stored in the table
bind_invalid_nocontinue(st, opened, pins) ==
    [ st EXCEPT
        !.open_pins = pins,
        !.buttons = (opened.button_id :> opened)
            @@ [ k \in DOMAIN st.buttons \ { opened.button_id }
                   |-> st.buttons[k] ] ]

\* the else branch of the press type test: the name is logged as invalid,
\* the pin is closed when the button has no generator, and the continue
\* leaves the table alone
bind_invalid(st, opened, pins) ==
    IF DOMAIN opened.filename_generators = {}
    THEN [ st EXCEPT !.open_pins = pins \ { opened.button_id } ]
    ELSE [ st EXCEPT !.open_pins = pins ]

bind_file(st, file) ==
    LET split == Split(DropExt(file))
    IN  IF ~IsInt(split[1])
        THEN [ st EXCEPT !.error = "ValueError" ]
        ELSE
        LET button_id == IntOf(split[1])
            found == IF button_id \in DOMAIN st.buttons
                     THEN st.buttons[button_id] ELSE ButtonData
            new_button == [ found EXCEPT !.button_id = button_id ]
        IN  IF Len(split) < 2
            THEN st
            ELSE
            LET opened == [ new_button EXCEPT !.gpio_object = "open" ]
                pins == st.open_pins \cup { button_id }
            IN  IF Len(split) = 4 /\ ~IsInt(split[4])
                THEN [ st EXCEPT !.open_pins = pins, !.error = "ValueError" ]
                ELSE IF split[2] = single \/ split[2] = double
                THEN
                    LET pt == IF split[2] = single THEN "SINGLE" ELSE "DOUBLE"
                        r == bind_slot(opened.filename_generators, pt, split, file)
                        bound == [ opened EXCEPT !.filename_generators = r.gens ]
                    IN  IF r.error # "none"
                        THEN [ st EXCEPT !.open_pins = pins, !.error = r.error ]
                        ELSE [ st EXCEPT
                                 !.open_pins = pins,
                                 !.buttons = (button_id :> bound)
                                     @@ [ k \in DOMAIN st.buttons \ { button_id }
                                            |-> st.buttons[k] ] ]
                ELSE bind_invalid(st, opened, pins)

\* the scan loop: stops at the first exception
RECURSIVE bind_loop(_, _)
bind_loop(st, files) ==
    IF files = <<>> \/ st.error # "none" THEN st
    ELSE bind_loop(bind_file(st, Head(files)), Tail(files))

\* files = [x for x in os.listdir() if os.path.isfile(x) and x.endswith(".wav")]
wav_files(listdir) ==
    SelectSeq(listdir, EndsWithWav)

\* NoiseMachine.__init_buttons on a directory listing
init_buttons(listdir) ==
    bind_loop(BindStart, wav_files(listdir))

(***************************************************************************)
(* The directories of the model.                                           *)
(***************************************************************************)
f5s == Name2(<< "5" >>, single)
f5d == Name2(<< "5" >>, double)
f05s == Name2(<< "0", "5" >>, single)
f5dr1 == Name4(<< "5" >>, double, random, << "1" >>)
f5dr2 == Name4(<< "5" >>, double, random, << "2" >>)
f6s1 == Name4(<< "6" >>, single, sequence, << "1" >>)
f6s2 == Name4(<< "6" >>, single, sequence, << "2" >>)
f6s10 == Name4(<< "6" >>, single, sequence, << "1", "0" >>)
f8t == Name2(<< "8" >>, << "t", "r", "i", "p", "l", "e" >>)
fxs == Name2(<< "x" >>, single)
notes == << "n", "o", "t", "e", "s", ".", "t", "x", "t" >>
f7 == << "7" >> \o wav
f6dr == << "6" >> \o dash \o double \o dash \o random \o wav
f6s01 == Name4(<< "6" >>, single, sequence, << "0", "1" >>)

\* the names a directory listing of the binder runs is drawn from
DirNames ==
    { f5s, f5d, f05s, f5dr1, f5dr2, f6s1, f6s2, f6s10, f8t, fxs, notes,
      f7, f6dr, f6s01 }

\* os.listdir() : any order, no name twice
Listings ==
    UNION { { l \in [ 1..n -> DirNames ] :
                \A i, j \in 1..n : i # j => l[i] # l[j] } : n \in 0..MaxFiles }

\* the directory the monitor runs are started in: button 5 has a fixed file
\* for each press type, button 6 a sequence for single presses only
ScanDir ==
    << f5s, f5d, f6s1, f6s2 >>

\* a pin no generator is bound to
StrayPins ==
    { 7 }

(***************************************************************************)
(* State.                                                                  *)
(***************************************************************************)
VARIABLES
    listdir,              \* the directory listing __init__ ran on
    buttons,              \* self.buttons
    open_pins,            \* pins held by gpiozero.Button objects
    bind_error,           \* the exception __init_buttons raised, or "none"
    ncalls,               \* direct calls of next() made on each slot
    ret,                  \* slot and result of the last direct call of next()
    last_button_pressed,  \* self.last_button_pressed
    button_event,         \* self.button_event (threading.Event)
    sound_player,         \* self.sound_player: a Popen handle, 0 for None
    procs,                \* the aplay processes: handle -> state
    stop_event,           \* the stop_event passed to monitor()
    pc,                   \* position of the thread running monitor()
    moinitored_button,    \* local of monitor()
    arg,                  \* argument of __play_sound: a slot, <<>> for None
    hpc,                  \* position of the thread running __button_press
    hbutton,              \* button.pin.number of the running __button_press
    log,                  \* history: presses of the current decision cycle
    classified,           \* history: classifications of the current cycle
    requested             \* history: playback requests of the current cycle

bindvars == << listdir, buttons, open_pins, bind_error >>
callvars == << ncalls, ret >>
monvars == << last_button_pressed, button_event, sound_player, procs,
              stop_event, pc, moinitored_button, arg >>
pressvars == << hpc, hbutton >>
histvars == << log, classified, requested >>
vars == << bindvars, callvars, monvars, pressvars, histvars >>

Slots == { << b, pt >> : b \in 0..9, pt \in PressType }

\* self.buttons[b].filename_generators.get(pt) is not None
HasGenerator(b, pt) ==
    /\ b \in DOMAIN buttons
    /\ pt \in DOMAIN buttons[b].filename_generators

\* NoiseMachine.__init__ on the listing l, up to the call of monitor()
InitMachine(l) ==
    /\ listdir = l
    /\ LET bound == init_buttons(l)
       IN  /\ buttons = bound.buttons
           /\ open_pins = bound.open_pins
           /\ bind_error = bound.error
    /\ ncalls = [ s \in Slots |-> 0 ]
    /\ ret = <<>>
    /\ last_button_pressed = 0
    /\ button_event = FALSE
    /\ sound_player = 0
    /\ procs = <<>>
    /\ stop_event = FALSE
    /\ pc = "loop"
    /\ moinitored_button = 0
    /\ arg = <<>>
    /\ hpc = "idle"
    /\ hbutton = 0
    /\ log = <<>>
    /\ classified = <<>>
    /\ requested = <<>>

Init ==
    InitMachine(ScanDir)

InitBind ==
    \E l \in Listings : InitMachine(l)

(***************************************************************************)
(* Direct calls of FilenameGenerator.next on a bound selector.             *)
(***************************************************************************)
RECURSIVE SumCalls(_, _)
SumCalls(f, S) ==
    IF S = {} THEN 0
    ELSE LET s == CHOOSE x \in S : TRUE
         IN  f[s] + SumCalls(f, S \ { s })

\* WithGenerator when the counter is an attribute of the class, shared by
\* every generator
WithGenerator_sharedcounter(b, pt, gen) ==
    [ k \in DOMAIN buttons |->
        [ buttons[k] EXCEPT !.filename_generators =
            [ p \in DOMAIN @ |->
                IF k = b /\ p = pt THEN gen
                ELSE [ @[p] EXCEPT !.counter = gen.counter ] ] ] ]

\* self.buttons with the generator of slot <<b, pt>> replaced by gen
WithGenerator(b, pt, gen) ==
    [ buttons EXCEPT ![b].filename_generators[pt] = gen ]

call_next(b, pt) ==
    /\ bind_error = "none"
    /\ HasGenerator(b, pt)
    /\ SumCalls(ncalls, Slots) < MaxCalls
    /\ \E r \in next(buttons[b].filename_generators[pt]) :
          /\ buttons' = WithGenerator(b, pt, r.gen)
          /\ ret' = [ slot |-> << b, pt >>, file |-> r.file ]
    /\ ncalls' = [ ncalls EXCEPT ![<< b, pt >>] = @ + 1 ]
    /\ UNCHANGED << listdir, open_pins, bind_error, monvars, pressvars, histvars >>

NextBind ==
    \E b \in 0..9, pt \in PressType : call_next(b, pt)

SpecBind ==
    InitBind /\ [][NextBind]_vars

(***************************************************************************)
(* NoiseMachine.__button_press, run by the gpiozero event thread: called   *)
(* with the button, it stores the pin number and then sets the event.      *)
(***************************************************************************)
\* where the monitor loop stands, as far as the history records it: blocked
\* at the head of the loop, blocked in the double-press window, or elsewhere
Phase ==
    IF pc \in { "loop", "wait" } THEN "idle"
    ELSE IF pc = "window" THEN "window"
    ELSE "busy"

\* a sound is playing: the current aplay process runs and was not signalled
Playing ==
    /\ sound_player # 0
    /\ procs[sound_player] = "running"

button_press_enter(b) ==
    /\ hpc = "idle"
    /\ Len(log) < MaxPresses
    /\ hpc' = "entered"
    /\ hbutton' = b
    /\ log' = Append(log, [ b |-> b, epc |-> Phase, spc |-> "none", play |-> FALSE ])
    /\ UNCHANGED << bindvars, callvars, monvars, classified, requested >>

button_press_write ==
    /\ hpc = "entered"
    /\ last_button_pressed' = hbutton
    /\ hpc' = "written"
    /\ UNCHANGED << bindvars, callvars, button_event, sound_player, procs,
                    stop_event, pc, moinitored_button, arg, hbutton, histvars >>

button_press_set ==
    /\ hpc = "written"
    /\ button_event' = TRUE
    /\ hpc' = "idle"
    /\ hbutton' = 0
    /\ log' = [ log EXCEPT ![Len(log)].spc = Phase, ![Len(log)].play = Playing ]
    /\ UNCHANGED << bindvars, callvars, last_button_pressed, sound_player, procs,
                    stop_event, pc, moinitored_button, arg,
                    classified, requested >>

(***************************************************************************)
(* The aplay process and the callers of monitor().                         *)
(***************************************************************************)
\* Popen.poll() is None: the process has not exited
Alive(p) ==
    procs[p] \in { "running", "terminated" }

\* an aplay process exits: at the end of the file, or after SIGTERM; a
\* handle nothing refers to any more is dropped
process_exits(p) ==
    /\ p \in DOMAIN procs
    /\ Alive(p)
    /\ procs' = IF p = sound_player
                THEN [ procs EXCEPT ![p] = "exited" ]
                ELSE [ q \in DOMAIN procs \ { p } |-> procs[q] ]
    /\ UNCHANGED << bindvars, callvars, last_button_pressed, button_event,
                    sound_player, stop_event, pc, moinitored_button, arg,
                    pressvars, histvars >>

\* stop_event.set() by the owner of the monitor thread
stop_requested ==
    /\ ~stop_event
    /\ stop_event' = TRUE
    /\ UNCHANGED << bindvars, callvars, last_button_pressed, button_event,
                    sound_player, procs, pc, moinitored_button, arg,
                    pressvars, histvars >>

\* KeyboardInterrupt raised in the thread running monitor(): break
keyboard_interrupt ==
    /\ pc \notin { "done", "crashed" }
    /\ pc' = "done"
    /\ UNCHANGED << bindvars, callvars, last_button_pressed, button_event,
                    sound_player, procs, stop_event, moinitored_button, arg,
                    pressvars, histvars >>

(***************************************************************************)
(* NoiseMachine.monitor, one action per statement that reads or writes     *)
(* state shared with __button_press, and NoiseMachine.__play_sound.        *)
(***************************************************************************)
\* the history starts over when the loop goes back to its head; a press
\* whose handler is still running stays on record
EndCycle ==
    /\ log' = IF hpc # "idle" THEN << log[Len(log)] >> ELSE <<>>
    /\ classified' = <<>>
    /\ requested' = <<>>

\* while not stop_event.is_set()
monitor_loop ==
    /\ pc = "loop"
    /\ pc' = IF stop_event THEN "done" ELSE "wait"
    /\ UNCHANGED << bindvars, callvars, last_button_pressed, button_event,
                    sound_player, procs, stop_event, moinitored_button, arg,
                    pressvars, histvars >>

\* monitor_wait that blocks until a press is signalled, without a timeout
monitor_wait_notimeout ==
    /\ pc = "wait"
    /\ button_event
    /\ pc' = "poll"
    /\ UNCHANGED << bindvars, callvars, last_button_pressed, button_event,
                    sound_player, procs, stop_event, moinitored_button, arg,
                    pressvars, histvars >>

\* self.button_event.wait(timeout=2); if not is_set(): continue
monitor_wait ==
    /\ pc = "wait"
    /\ pc' = IF button_event THEN "poll" ELSE "loop"
    /\ UNCHANGED << bindvars, callvars, last_button_pressed, button_event,
                    sound_player, procs, stop_event, moinitored_button, arg,
                    pressvars, histvars >>

\* monitor_poll that clears the press without terminating the playback
monitor_poll_noterminate ==
    /\ pc = "poll"
    /\ pc' = IF sound_player # 0 /\ Alive(sound_player) THEN "intclear" ELSE "arm"
    /\ UNCHANGED << bindvars, callvars, last_button_pressed, button_event,
                    sound_player, procs, stop_event, moinitored_button, arg,
                    pressvars, histvars >>

\* monitor_poll that does not look at the playback handle
monitor_poll_nocheck ==
    /\ pc = "poll"
    /\ pc' = "arm"
    /\ UNCHANGED << bindvars, callvars, last_button_pressed, button_event,
                    sound_player, procs, stop_event, moinitored_button, arg,
                    pressvars, histvars >>

\* if self.sound_player is not None and self.sound_player.poll() is None:
\*     self.sound_player.terminate()
monitor_poll ==
    /\ pc = "poll"
    /\ IF sound_player # 0 /\ Alive(sound_player)
       THEN /\ procs' = [ procs EXCEPT ![sound_player] = "terminated" ]
            /\ pc' = "intclear"
       ELSE /\ procs' = procs
            /\ pc' = "arm"
    /\ UNCHANGED << bindvars, callvars, last_button_pressed, button_event,
                    sound_player, stop_event, moinitored_button, arg,
                    pressvars, histvars >>

\* self.button_event.clear(); continue        (after an interrupt)
monitor_intclear ==
    /\ pc = "intclear"
    /\ button_event' = FALSE
    /\ pc' = "loop"
    /\ EndCycle
    /\ UNCHANGED << bindvars, callvars, last_button_pressed, sound_player,
                    procs, stop_event, moinitored_button, arg, pressvars >>

\* moinitored_button = self.last_button_pressed
monitor_arm ==
    /\ pc = "arm"
    /\ moinitored_button' = last_button_pressed
    /\ pc' = "clear1"
    /\ UNCHANGED << bindvars, callvars, last_button_pressed, button_event,
                    sound_player, procs, stop_event, arg, pressvars, histvars >>

\* monitor_clear1 without the clear(): the first press stays signalled
monitor_clear1_noclear ==
    /\ pc = "clear1"
    /\ pc' = "window"
    /\ UNCHANGED << bindvars, callvars, last_button_pressed, button_event,
                    sound_player, procs, stop_event, moinitored_button, arg,
                    pressvars, histvars >>

\* self.button_event.clear()                  (before the window)
monitor_clear1 ==
    /\ pc = "clear1"
    /\ button_event' = FALSE
    /\ pc' = "window"
    /\ UNCHANGED << bindvars, callvars, last_button_pressed, sound_player,
                    procs, stop_event, moinitored_button, arg, pressvars,
                    histvars >>

\* self.button_event.wait(0.25) returns: the event was set, or the window
\* has elapsed
monitor_window ==
    /\ pc = "window"
    /\ pc' = "cmp"
    /\ UNCHANGED << bindvars, callvars, last_button_pressed, button_event,
                    sound_player, procs, stop_event, moinitored_button, arg,
                    pressvars, histvars >>

\* if self.last_button_pressed == moinitored_button: ... else: (abort)
monitor_cmp ==
    /\ pc = "cmp"
    /\ pc' = IF last_button_pressed = moinitored_button THEN "isset" ELSE "clear2"
    /\ UNCHANGED << bindvars, callvars, last_button_pressed, button_event,
                    sound_player, procs, stop_event, moinitored_button, arg,
                    pressvars, histvars >>

\* monitor_isset with the two branches of is_set() exchanged
monitor_isset_swapped ==
    /\ pc = "isset"
    /\ LET pt == IF button_event THEN "SINGLE" ELSE "DOUBLE"
       IN  /\ classified' = Append(classified, << moinitored_button, pt >>)
           /\ IF moinitored_button \in DOMAIN buttons
              THEN /\ arg' = IF HasGenerator(moinitored_button, pt)
                             THEN << moinitored_button, pt >> ELSE <<>>
                   /\ pc' = "play"
              ELSE /\ arg' = arg
                   /\ pc' = "crashed"
    /\ UNCHANGED << bindvars, callvars, last_button_pressed, button_event,
                    sound_player, procs, stop_event, moinitored_button,
                    pressvars, log, requested >>

\* if self.button_event.is_set(): (double) else: (single), and the lookup
\* self.buttons[moinitored_button].filename_generators.get(press type);
\* a button that is not in self.buttons raises KeyError
monitor_isset ==
    /\ pc = "isset"
    /\ LET pt == IF button_event THEN "DOUBLE" ELSE "SINGLE"
       IN  /\ classified' = Append(classified, << moinitored_button, pt >>)
           /\ IF moinitored_button \in DOMAIN buttons
              THEN /\ arg' = IF HasGenerator(moinitored_button, pt)
                             THEN << moinitored_button, pt >> ELSE <<>>
                   /\ pc' = "play"
              ELSE /\ arg' = arg
                   /\ pc' = "crashed"
    /\ UNCHANGED << bindvars, callvars, last_button_pressed, button_event,
                    sound_player, procs, stop_event, moinitored_button,
                    pressvars, log, requested >>

\* a handle for a new process: Popen builds the new object while
\* self.sound_player still refers to the old one; the old one is dropped at
\* the assignment once its process has exited
FreeHandles ==
    { h \in 1..MaxProcs : h \notin DOMAIN procs }

Started(h) ==
    (h :> "running") @@ [ q \in { x \in DOMAIN procs : Alive(x) } \ { h } |-> procs[q] ]

\* __play_sound without the test for None: None.next() raises
play_sound_nocheck ==
    /\ pc = "play"
    /\ IF arg = <<>>
       THEN /\ pc' = "crashed"
            /\ arg' = arg
            /\ UNCHANGED << buttons, sound_player, procs, requested >>
       ELSE /\ FreeHandles # {}
            /\ \E r \in next(buttons[arg[1]].filename_generators[arg[2]]) :
                  /\ buttons' = WithGenerator(arg[1], arg[2], r.gen)
                  /\ requested' = Append(requested, [ slot |-> arg, file |-> r.file ])
            /\ LET h == CHOOSE x \in FreeHandles : \A y \in FreeHandles : x <= y
               IN  /\ sound_player' = h
                   /\ procs' = Started(h)
            /\ arg' = <<>>
            /\ pc' = "playclear"
    /\ UNCHANGED << listdir, open_pins, bind_error, callvars, last_button_pressed,
                    button_event, stop_event, moinitored_button, pressvars,
                    log, classified >>

\* __play_sound: return on None; otherwise next() and Popen, which succeeds;
\* the parameter is not used after Popen
play_sound ==
    /\ pc = "play"
    /\ IF arg = <<>>
       THEN /\ pc' = "clear2"
            /\ arg' = arg
            /\ UNCHANGED << buttons, sound_player, procs, requested >>
       ELSE /\ FreeHandles # {}
            /\ \E r \in next(buttons[arg[1]].filename_generators[arg[2]]) :
                  /\ buttons' = WithGenerator(arg[1], arg[2], r.gen)
                  /\ requested' = Append(requested, [ slot |-> arg, file |-> r.file ])
            /\ LET h == CHOOSE x \in FreeHandles : \A y \in FreeHandles : x <= y
               IN  /\ sound_player' = h
                   /\ procs' = Started(h)
            /\ arg' = <<>>
            /\ pc' = "playclear"
    /\ UNCHANGED << listdir, open_pins, bind_error, callvars, last_button_pressed,
                    button_event, stop_event, moinitored_button, pressvars,
                    log, classified >>

\* __play_sound: next(), and Popen raises (no aplay: shutil.which gives
\* None); monitor() catches KeyboardInterrupt only
play_sound_popen_raises ==
    /\ pc = "play"
    /\ arg # <<>>
    /\ \E r \in next(buttons[arg[1]].filename_generators[arg[2]]) :
          /\ buttons' = WithGenerator(arg[1], arg[2], r.gen)
          /\ requested' = Append(requested, [ slot |-> arg, file |-> r.file ])
    /\ pc' = "crashed"
    /\ UNCHANGED << listdir, open_pins, bind_error, callvars, last_button_pressed,
                    button_event, sound_player, procs, stop_event,
                    moinitored_button, arg, pressvars, log, classified >>

\* __play_sound: self.button_event.clear()
play_sound_clear ==
    /\ pc = "playclear"
    /\ button_event' = FALSE
    /\ pc' = "clear2"
    /\ UNCHANGED << bindvars, callvars, last_button_pressed, sound_player,
                    procs, stop_event, moinitored_button, arg, pressvars,
                    histvars >>

\* self.button_event.clear()                  (end of the loop body);
\* moinitored_button is dead until the loop assigns it again
monitor_clear2 ==
    /\ pc = "clear2"
    /\ button_event' = FALSE
    /\ pc' = "loop"
    /\ moinitored_button' = 0
    /\ EndCycle
    /\ UNCHANGED << bindvars, callvars, last_button_pressed, sound_player,
                    procs, stop_event, arg, pressvars >>

Next ==
    \/ \E b \in DOMAIN buttons : button_press_enter(b)
    \/ button_press_write
    \/ button_press_set
    \/ \E p \in 1..MaxProcs : process_exits(p)
    \/ stop_requested
    \/ keyboard_interrupt
    \/ monitor_loop
    \/ monitor_wait
    \/ monitor_poll
    \/ monitor_intclear
    \/ monitor_arm
    \/ monitor_clear1
    \/ monitor_window
    \/ monitor_cmp
    \/ monitor_isset
    \/ play_sound
    \/ play_sound_popen_raises
    \/ play_sound_clear
    \/ monitor_clear2

Spec ==
    Init /\ [][Next]_vars

\* the same machine when __button_press is also called for a pin that has
\* no entry in self.buttons
NextStray ==
    \/ Next
    \/ \E b \in StrayPins : button_press_enter(b)

SpecStray ==
    Init /\ [][NextStray]_vars

(***************************************************************************)
(* Properties of the press classifier.                                     *)
(*                                                                         *)
(* log holds the presses of the current pass through the loop body: for    *)
(* each, the button, where the loop stood when __button_press was entered  *)
(* (epc) and when it set the event (spc, "none" while it has not), and     *)
(* whether a sound was playing when it set the event (play).               *)
(***************************************************************************)
\* the loop body has run to its end: the final clear() is next, or the
\* body was left by an exception of __play_sound
CycleOver ==
    pc \in { "clear2", "crashed" }

\* what the cycle must have asked the player for after classifying << b, pt >>
RequestedFrom(b, pt) ==
    IF HasGenerator(b, pt)
    THEN /\ Len(requested) = 1
         /\ requested[1].slot = << b, pt >>
    ELSE requested = <<>>

\* C1: when the only press of a cycle is one press on a bound button, signalled
\* while the loop was idle and no sound was playing (the loop went on to the
\* window), and nothing else is pressed until the loop body ends, the cycle
\* has classified exactly once, SINGLE for that button, and has made exactly
\* the request of that button's SINGLE selector.
C1_SinglePress ==
    ( /\ CycleOver
      /\ Len(log) = 1
      /\ log[1].spc = "idle"
      /\ log[1].b \in DOMAIN buttons )
    => /\ classified = << << log[1].b, "SINGLE" >> >>
       /\ RequestedFrom(log[1].b, "SINGLE")

C1_Witness ==
    /\ pc = "clear2"
    /\ Len(log) = 1
    /\ log[1].spc = "idle"
    /\ log[1].b = 5
    /\ classified = << << 5, "SINGLE" >> >>
    /\ Len(requested) = 1
    /\ requested[1].file = f5s

\* C2: when the presses of a cycle are two presses on the same bound button,
\* the first signalled while the loop was idle and the second signalled while
\* the loop waited in the window, the cycle has classified exactly once,
\* DOUBLE for that button, and never SINGLE.
C2_DoublePress ==
    ( /\ CycleOver
      /\ Len(log) = 2
      /\ log[1].b = log[2].b
      /\ log[1].b \in DOMAIN buttons
      /\ log[1].spc = "idle"
      /\ log[2].spc = "window" )
    => /\ classified = << << log[1].b, "DOUBLE" >> >>
       /\ RequestedFrom(log[1].b, "DOUBLE")

C2_Witness ==
    /\ pc = "clear2"
    /\ Len(log) = 2
    /\ log[1].b = 5
    /\ log[2].b = 5
    /\ log[1].spc = "idle"
    /\ log[2].spc = "window"
    /\ classified = << << 5, "DOUBLE" >> >>
    /\ Len(requested) = 1
    /\ requested[1].file = f5d

\* C3: when a press on button A, signalled while the loop was idle, is followed
\* by a press on another button B that is signalled while the loop waits in
\* the window, the cycle classifies nothing and requests nothing, however the
\* steps of the handler fall between the steps of the loop.
C3_OtherButtonAborts ==
    ( /\ Len(log) = 2
      /\ log[1].b # log[2].b
      /\ log[1].spc = "idle"
      /\ log[2].spc = "window" )
    => /\ classified = <<>>
       /\ requested = <<>>

\* C4 as stated: a press signalled while a sound was playing never starts a
\* decision cycle (the loop does not go on to arm a button for it).
C4_EveryPressInterrupts ==
    ( /\ Len(log) = 1
      /\ log[1].spc = "idle"
      /\ log[1].play )
    => pc \notin { "arm", "clear1", "window", "cmp", "isset", "play", "playclear" }

\* C4 as amended: when the loop, woken by a press, finds at its check of the
\* playback handle that the sound is still playing, it terminates that
\* playback and goes back to the head of the loop with the event cleared,
\* without arming a button, classifying or requesting a playback.
C4_InterruptAtPoll ==
    [][ /\ ( pc = "poll" /\ Playing /\ pc' \notin { "poll", "done" } )
           => /\ pc' = "intclear"
              /\ procs'[sound_player] = "terminated"
              /\ UNCHANGED << sound_player, moinitored_button, buttons,
                              classified, requested >>
        /\ ( pc = "intclear" /\ pc' \notin { "intclear", "done" } )
           => /\ pc' = "loop"
              /\ ~button_event'
              /\ classified = <<>>
              /\ requested = <<>>
              /\ UNCHANGED << sound_player, moinitored_button, buttons >>
      ]_vars

C4_Witness ==
    /\ pc = "intclear"
    /\ sound_player # 0
    /\ procs[sound_player] = "terminated"
    /\ Len(log) = 1
    /\ log[1].play
    /\ moinitored_button = 0

\* C5: at most one aplay process is alive at any time: every process other
\* than the one self.sound_player refers to has exited, and so has the old
\* one whenever a new one is started.
C5_OnePlayback ==
    /\ Cardinality({ p \in DOMAIN procs : Alive(p) }) <= 1
    /\ \A p \in DOMAIN procs : Alive(p) => p = sound_player

\* a second playback is running, started after the first had exited
C5_Witness ==
    /\ sound_player = 2
    /\ procs[sound_player] = "running"
    /\ DOMAIN procs = { 2 }

\* C6: when the loop has classified a press for a bound button that has no
\* selector for that press type, __play_sound returns without a request, a
\* new process or a change of any selector, and the loop goes on to its final
\* clear() and from there to the head of the loop.
C6_NoSelector ==
    [][ /\ ( /\ pc = "play"
             /\ pc' \notin { "play", "done" }
             /\ Len(classified) = 1
             /\ classified[1][1] \in DOMAIN buttons
             /\ ~HasGenerator(classified[1][1], classified[1][2]) )
           => /\ pc' = "clear2"
              /\ requested' = <<>>
              /\ UNCHANGED << buttons, sound_player, procs >>
        /\ ( pc = "clear2" /\ pc' \notin { "clear2", "done" } )
           => pc' = "loop"
      ]_vars

C6_Witness ==
    /\ pc = "clear2"
    /\ classified = << << 6, "DOUBLE" >> >>
    /\ ~HasGenerator(6, "DOUBLE")
    /\ requested = <<>>

\* C10: a press for a button that has no entry in self.buttons leaves the
\* loop running: the loop is never ended by the lookup of such a button.
C10_StrayPressNoOp ==
    pc = "crashed" => moinitored_button \in DOMAIN buttons

(***************************************************************************)
(* Properties of the binder and the selectors.                             *)
(***************************************************************************)
\* the fields of a file name of the listing
Fields(f) ==
    Split(DropExt(f))

\* f names the slot << b, pt >>: <b>-single... or <b>-double...
NamesSlot(f, b, pt) ==
    LET fields == Fields(f)
    IN  /\ Len(fields) >= 2
        /\ fields[2] = (IF pt = "SINGLE" THEN single ELSE double)
        /\ IsInt(fields[1])
        /\ IntOf(fields[1]) = b

\* the .wav files of the listing that name the slot << b, pt >>
SlotFiles(b, pt) ==
    { f \in { listdir[i] : i \in 1..Len(listdir) } :
        EndsWithWav(f) /\ NamesSlot(f, b, pt) }

Ordinal(f) ==
    IntOf(Fields(f)[4])

\* the slot the last direct call of next() was made on
RetGenerator ==
    buttons[ret.slot[1]].filename_generators[ret.slot[2]]

\* C7: for a SEQUENCE selector bound from n files with distinct ordinals, the
\* k-th call of next() returns the file with the ((k-1) mod n + 1)-th smallest
\* ordinal.
C7_SequenceCycles ==
    ( /\ ret # <<>>
      /\ RetGenerator.generator_type = "SEQUENCE" )
    => LET b == ret.slot[1]
           pt == ret.slot[2]
           files == SlotFiles(b, pt)
       IN  (\A f, g \in files : Ordinal(f) = Ordinal(g) => f = g)
           => /\ ret.file \in files
              /\ 1 + Cardinality({ g \in files : Ordinal(g) < Ordinal(ret.file) })
                   = ((ncalls[ret.slot] - 1) % Cardinality(files)) + 1

\* the third call on a two-file sequence, bound from a listing that is in
\* neither ordinal nor encounter order, is back at the lower ordinal
C7_Witness ==
    /\ listdir = << f6s10, f6s2 >>
    /\ ncalls[<< 6, "SINGLE" >>] = 3
    /\ ret.slot = << 6, "SINGLE" >>
    /\ ret.file = f6s2

\* f matches <button_id>-<press_type>
TwoField(f) ==
    /\ EndsWithWav(f)
    /\ LET fields == Fields(f)
       IN  /\ Len(fields) = 2
           /\ IsInt(fields[1])
           /\ fields[2] \in { single, double }

C9_RandomSelector ==
    ( /\ ret # <<>>
      /\ RetGenerator.generator_type = "RANDOM" )
    => LET files == SlotFiles(ret.slot[1], ret.slot[2])
       IN  /\ ret.file \in files
           /\ \A f \in files : files = { f } => ret.file = f

\* a call on the two-file random selector has returned the second file
C9_Witness ==
    /\ bind_error = "none"
    /\ SlotFiles(5, "DOUBLE") = { f5dr1, f5dr2 }
    /\ ret # <<>>
    /\ ret.slot = << 5, "DOUBLE" >>
    /\ ret.file = f5dr2

\* C11: when Popen fails in __play_sound, the failure does not end the loop:
\* the loop is never left by an exception after a playback request.
C11_LaunchFailureNonFatal ==
    ~( pc = "crashed" /\ requested # <<>> )

\* ---- termination of the monitor loop ----

\* one step of the thread that runs monitor(): every wait in the loop has a
\* timeout and every other statement returns, so the thread always takes
\* its next step
MonitorStep ==
    \/ monitor_loop
    \/ monitor_wait
    \/ monitor_poll
    \/ monitor_intclear
    \/ monitor_arm
    \/ monitor_clear1
    \/ monitor_window
    \/ monitor_cmp
    \/ monitor_isset
    \/ play_sound
    \/ play_sound_popen_raises
    \/ play_sound_clear
    \/ monitor_clear2

\* the directory the termination runs are started in: two buttons, each
\* with a file for single presses only
StopDir ==
    << f5s, f6s1 >>

InitFair ==
    InitMachine(StopDir)

SpecFair ==
    InitFair /\ [][Next]_vars /\ WF_vars(MonitorStep)

LoopExited ==
    pc \in { "done", "crashed" }

\* C12: once stop_event is set the loop eventually exits, whatever presses
\* the handler keeps delivering.
C12_StopTerminates ==
    stop_event ~> LoopExited

C12_Witness ==
    /\ stop_event
    /\ pc = "done"
    /\ hpc = "written"
    /\ Len(log) = MaxPresses

\* ---- rejection of names by the binder ----

\* the listing without its i-th name
Without(l, i) ==
    SubSeq(l, 1, i - 1) \o SubSeq(l, i + 1, Len(l))

\* f is a .wav name with an integer button id (and ordinal, when it has
\* four fields) whose press type field is neither single nor double
InvalidPressType(f) ==
    LET fields == Fields(f)
    IN  /\ EndsWithWav(f)
        /\ Len(fields) >= 2
        /\ IsInt(fields[1])
        /\ Len(fields) = 4 => IsInt(fields[4])
        /\ fields[2] # single
        /\ fields[2] # double

\* C13: a name with an invalid press type adds no selector to any button and
\* does not stop the scan: the binding of the listing is the binding of the
\* listing without that name.
C13_InvalidPressTypeSkipped ==
    ret = <<>> =>
        \A i \in 1..Len(listdir) :
            InvalidPressType(listdir[i]) =>
                LET rest == init_buttons(Without(listdir, i))
                IN  /\ buttons = rest.buttons
                    /\ bind_error = rest.error

C13_Witness ==
    /\ listdir = << f8t, f5s >>
    /\ bind_error = "none"
    /\ DOMAIN buttons = { 5 }
    /\ ret # <<>>
    /\ ret.file = f5s

\* the files held by a generator
GenFiles(gen) ==
    { gen.filenames[k][2] : k \in 1..Len(gen.filenames) }

\* the files held by the generators of the button table
BoundFiles ==
    UNION { GenFiles(buttons[s[1]].filename_generators[s[2]]) :
              s \in { t \in Slots : HasGenerator(t[1], t[2]) } }

\* C14: a .wav name whose field count is neither 2 nor 4 creates or extends
\* no selector.
C14_MalformedFieldCountRejected ==
    \A i \in 1..Len(listdir) :
        ( EndsWithWav(listdir[i]) /\ Len(Fields(listdir[i])) \notin { 2, 4 } )
            => listdir[i] \notin BoundFiles

\* a .wav name whose button id, or whose ordinal when it has four fields,
\* is not an integer
NotAnInteger(f) ==
    LET fields == Fields(f)
    IN  /\ EndsWithWav(f)
        /\ \/ ~IsInt(fields[1])
           \/ Len(fields) = 4 /\ ~IsInt(fields[4])

\* C15: a name whose button id or ordinal is not an integer is skipped
\* without an exception: the binding of the listing is the binding of the
\* listing without that name.
C15_NonIntegerSkipped ==
    ret = <<>> =>
        \A i \in 1..Len(listdir) :
            NotAnInteger(listdir[i]) =>
                LET rest == init_buttons(Without(listdir, i))
                IN  /\ buttons = rest.buttons
                    /\ bind_error = rest.error

\* C16: every entry of the button table has at least one selector, holding
\* files of the listing that name that button; a button whose files were all
\* rejected has no entry.
C16_EntriesHaveSelectors ==
    \A b \in DOMAIN buttons :
        /\ DOMAIN buttons[b].filename_generators # {}
        /\ \A pt \in DOMAIN buttons[b].filename_generators :
               /\ GenFiles(buttons[b].filename_generators[pt]) # {}
               /\ GenFiles(buttons[b].filename_generators[pt]) \subseteq SlotFiles(b, pt)

C16_Witness ==
    /\ listdir = << f5s, f8t >>
    /\ bind_error = "none"
    /\ DOMAIN buttons = { 5 }
    /\ open_pins = { 5 }

\* ---- binding and the order of the listing ----

\* f matches <digits>-(single|double)[-(sequence|random)-<digits>].wav
Conforming(f) ==
    LET fields == Fields(f)
    IN  /\ EndsWithWav(f)
        /\ Len(fields) \in { 2, 4 }
        /\ IsInt(fields[1])
        /\ fields[2] \in { single, double }
        /\ Len(fields) = 4 =>
               /\ fields[3] \in { sequence, random }
               /\ IsInt(fields[4])

\* the policy a conforming name asks for
Policy(f) ==
    LET fields == Fields(f)
    IN  IF Len(fields) = 2 THEN "FIXED"
        ELSE IF fields[3] = random THEN "RANDOM" ELSE "SEQUENCE"

\* two conforming names of the same slot
SameSlot(f, g) ==
    /\ IntOf(Fields(f)[1]) = IntOf(Fields(g)[1])
    /\ Fields(f)[2] = Fields(g)[2]

\* every slot of the listing l uses one policy, and distinct ordinals
OnePolicyDistinctOrdinals(l) ==
    \A i, j \in 1..Len(l) :
        ( i # j /\ SameSlot(l[i], l[j]) ) =>
            /\ Policy(l[i]) = Policy(l[j])
            /\ Policy(l[i]) # "FIXED" => Ordinal(l[i]) # Ordinal(l[j])

\* no slot of the listing l has two fixed files
OneFixedFile(l) ==
    \A i, j \in 1..Len(l) :
        ( i # j /\ SameSlot(l[i], l[j]) ) => Policy(l[i]) # "FIXED"

\* the orderings of the listing l
Orderings(l) ==
    { [ i \in 1..Len(l) |-> l[p[i]] ] :
        p \in { q \in [ 1..Len(l) -> 1..Len(l) ] :
                  \A i, j \in 1..Len(l) : i # j => q[i] # q[j] } }

\* every ordering of the listing binds to the table of the listing
SameTable ==
    \A l \in Orderings(listdir) :
        LET other == init_buttons(l)
        IN  /\ other.buttons = buttons
            /\ other.error = bind_error

\* the first call of next() on every SEQUENCE selector returns the file of
\* the slot with the lowest ordinal
LowestFirst ==
    \A s \in { t \in Slots : HasGenerator(t[1], t[2]) } :
        LET gen == buttons[s[1]].filename_generators[s[2]]
        IN  gen.generator_type = "SEQUENCE" =>
                \A r \in next(gen) :
                    \A f \in SlotFiles(s[1], s[2]) : Ordinal(r.file) <= Ordinal(f)

\* C17 as stated: for conforming names, one policy and distinct ordinals per
\* slot, every ordering of the listing binds to the same table.
C17_OrderIndependent ==
    ( /\ ret = <<>>
      /\ \A i \in 1..Len(listdir) : Conforming(listdir[i])
      /\ OnePolicyDistinctOrdinals(listdir) )
        => ( SameTable /\ LowestFirst )

\* C17: for conforming names, one policy, distinct ordinals and at most one
\* fixed file per slot, every ordering of the listing binds to the same
\* table, and the first call of every SEQUENCE selector returns the file
\* with the lowest ordinal.
C17_OrderIndependentOneFixed ==
    ( /\ ret = <<>>
      /\ \A i \in 1..Len(listdir) : Conforming(listdir[i])
      /\ OnePolicyDistinctOrdinals(listdir)
      /\ OneFixedFile(listdir) )
        => ( SameTable /\ LowestFirst )

C17_Witness ==
    /\ listdir = << f6s10, f6s2 >>
    /\ ret = <<>>
    /\ bind_error = "none"
    /\ buttons[6].filename_generators["SINGLE"].filenames
           = << << 2, f6s2 >>, << 10, f6s10 >> >>

\* ---- the double press and the other buttons ----

\* C18: the loop classifies DOUBLE for a button only when the handler ran a
\* second time for that same button in the cycle.
C18_DoubleNeedsSecondPress ==
    \A k \in 1..Len(classified) :
        classified[k][2] = "DOUBLE" =>
            \E i, j \in 1..Len(log) :
                /\ i < j
                /\ log[i].b = classified[k][1]
                /\ log[j].b = classified[k][1]

\* ---- mixed policies and equal ordinals ----

\* C19: a listing of conforming names binds without an exception, whatever
\* policies the files of one slot mix.
C19_ConformingNeverRaises ==
    ( \A i \in 1..Len(listdir) : Conforming(listdir[i]) )
        => bind_error = "none"

\* the position of the name f in the listing
Encounter(f) ==
    CHOOSE i \in 1..Len(listdir) : listdir[i] = f

\* C20: files of one selector with the same ordinal stay in the order of the
\* listing.
C20_TiesInEncounterOrder ==
    ret = <<>> =>
        \A s \in { t \in Slots : HasGenerator(t[1], t[2]) } :
            LET filenames == buttons[s[1]].filename_generators[s[2]].filenames
            IN  \A i, j \in 1..Len(filenames) :
                    ( i < j /\ filenames[i][1] = filenames[j][1] )
                        => Encounter(filenames[i][2]) < Encounter(filenames[j][2])

\* ---- the cursor of a selector ----

\* the generator of the slot s in the table t
GeneratorOf(t, s) ==
    t[s[1]].filename_generators[s[2]]

\* C21: the state of a selector changes only in the step of __play_sound
\* that follows the classification of a press for the selector's own slot
\* and requests a file from it; that step leaves every other selector as
\* it was.
C21_CursorFrame ==
    [][ buttons' # buttons =>
          /\ pc = "play"
          /\ classified # <<>>
          /\ LET s == classified[Len(classified)]
             IN  /\ arg = s
                 /\ HasGenerator(s[1], s[2])
                 /\ Len(requested') = Len(requested) + 1
                 /\ requested'[Len(requested')].slot = s
                 /\ requested'[Len(requested')].file
                        \in GenFiles(GeneratorOf(buttons, s))
                 /\ DOMAIN buttons' = DOMAIN buttons
                 /\ \A t \in Slots :
                        ( t # s /\ HasGenerator(t[1], t[2]) ) =>
                            GeneratorOf(buttons', t) = GeneratorOf(buttons, t)
      ]_vars

C21_Witness ==
    /\ pc = "playclear"
    /\ classified = << << 6, "SINGLE" >> >>
    /\ requested = << [ slot |-> << 6, "SINGLE" >>, file |-> f6s1 ] >>
    /\ GeneratorOf(buttons, << 6, "SINGLE" >>).counter = 1
    /\ GeneratorOf(buttons, << 5, "SINGLE" >>).counter = 0
    /\ Len(log) = MaxPresses

\* C22: every bound SEQUENCE selector has a non-empty list and a counter
\* that is an index of it, after binding and after every call of next().
C22_CounterInRange ==
    \A s \in { t \in Slots : HasGenerator(t[1], t[2]) } :
        LET gen == GeneratorOf(buttons, s)
        IN  gen.generator_type = "SEQUENCE" =>
                /\ Len(gen.filenames) >= 1
                /\ 0 <= gen.counter
                /\ gen.counter < Len(gen.filenames)

C22_Witness ==
    /\ listdir = << f6s2, f6s1 >>
    /\ ncalls[<< 6, "SINGLE" >>] = 2
    /\ GeneratorOf(buttons, << 6, "SINGLE" >>).generator_type = "SEQUENCE"
    /\ GeneratorOf(buttons, << 6, "SINGLE" >>).counter = 0
    /\ ret.file = f6s2

====
